---- MODULE Spec2Model ----
(***************************************************************************)
(* text-encrypter: the two command-line programs of the repository,        *)
(*   "sub"  = src/text-encrypter.py  (v0.2.0, sub-commands genkey,         *)
(*            enc-text, dec-text, enc-file, dec-file)                      *)
(*   "flag" = src/text_encrypter.py  (v0.1.0, flags -g -e -d -f -t -k)     *)
(* run one invocation after the other over one filesystem.  An invocation  *)
(* walks main -> resolve_key -> operation -> done; an interrupt (Ctrl-C)   *)
(* may arrive at any of these points.                                      *)
(*                                                                         *)
(* Bytes are tagged tuples: <<"raw", n>> file/text bytes, <<"key", k>> a   *)
(* well-formed Fernet key, <<"tok", k, nonce, payload>> a Fernet token     *)
(* sealed under key k, <<"dir">> marks a directory.  Paths and file names  *)
(* are sequences of one-character strings; <<>> is an argument that was    *)
(* not given (None).                                                       *)
(***************************************************************************)
EXTENDS Integers, Sequences, FiniteSets, TLC

VARIABLES
    pc,           \* "idle" | "main" | "resolve_key" | "operation" | "done"
    args,         \* the parsed command line of the running invocation
    fs,           \* filesystem: existing path -> bytes (or Dir)
    keydir,       \* the default key directory (base / PROGRAM) exists
    key,          \* the bytes resolve_key returned
    status,       \* exit status of the finished invocation
    signalled,    \* the process died of SIGINT (unhandled KeyboardInterrupt)
    console,      \* kinds of message printed by the running invocation
    written,      \* paths the running (or, at the prompt, the last)
                  \* invocation wrote
    pre,          \* filesystem and key directory when the invocation started
    prev,         \* the invocation before the running one, when it was a
                  \* successful file-encrypt to a derived name:
                  \* <<src, out, data, key>>
    interrupted,  \* an interrupt arrived during the running invocation
    autokey,      \* the key bytes auto-provisioning wrote to the default
                  \* path, until something else writes that path
    runs          \* invocations started so far

vars == <<pc, args, fs, keydir, key, status, signalled, console, written,
          pre, prev, interrupted, autokey, runs>>

----------------------------------------------------------------------------
(* Bounds of the model *)

MaxRuns == 2
MaxNameLen == 4

----------------------------------------------------------------------------
(* Values *)

NoArg == <<>>
Dir == <<"dir">>
Raw(n) == <<"raw", n>>
KeyBytes(k) == <<"key", k>>
Token(k, nonce, payload) == <<"tok", k, nonce, payload>>
Str(b) == <<"str", b>>

KeyIds == {1, 2}
Nonces == {0, 1}

EncSuffix == <<".", "e", "n", "c">>
DecSuffix == <<".", "d", "e", "c">>

DefaultKeyPath == <<"~", "/", "f", "e", "r", "n", "e", "t", ".", "k", "e", "y">>

IsDirName(p) == p \in {<<".">>, <<".", ".">>}
IsDir(f, p) == IsDirName(p) \/ (p \in DOMAIN f /\ f[p] = Dir)
Exists(f, p) == IsDirName(p) \/ p \in DOMAIN f
IsFile(f, p) == Exists(f, p) /\ ~IsDir(f, p)

WriteBytes(f, p, data) == [q \in DOMAIN f \cup {p} |-> IF q = p THEN data ELSE f[q]]

----------------------------------------------------------------------------
(* pathlib: PurePath.suffix and PurePath.with_suffix on the final component *)

RFindDot(name) ==
    LET dots == {i \in 1..Len(name) : name[i] = "."}
    IN  IF dots = {} THEN 0 ELSE CHOOSE i \in dots : \A j \in dots : j <= i

Suffix(name) ==
    LET i == RFindDot(name)
    IN  IF 1 < i /\ i < Len(name) THEN SubSeq(name, i, Len(name)) ELSE <<>>

WithSuffix(name, suffix) ==
    LET old == Suffix(name)
    IN  IF old = <<>> THEN name \o suffix
        ELSE SubSeq(name, 1, Len(name) - Len(old)) \o suffix

\* path.with_suffix(".enc"): the extension replaced, not kept
EncryptedName_replace(name) == WithSuffix(name, EncSuffix)

EncryptedName(name) == WithSuffix(name, Suffix(name) \o EncSuffix)

\* the else branch as path.with_suffix(".dec"): the extension replaced
DecryptedName_replace(name) ==
    IF Suffix(name) = EncSuffix THEN WithSuffix(name, <<>>)
    ELSE WithSuffix(name, DecSuffix)

DecryptedName(name) ==
    IF Suffix(name) = EncSuffix THEN WithSuffix(name, <<>>)
    ELSE WithSuffix(name, Suffix(name) \o DecSuffix)

----------------------------------------------------------------------------
(* cryptography.fernet.Fernet as the programs use it, and str <-> bytes *)

Ok(v) == [exc |-> "none", val |-> v]
Raise(e) == [exc |-> e, val |-> <<>>]

IsKey(b) == b[1] = "key"

encrypt_bytes(data, k, nonce) ==
    IF IsKey(k) THEN Ok(Token(k[2], nonce, data)) ELSE Raise("ValueError")

\* decryption that does not authenticate the token against the key
decrypt_bytes_unverified(token, k) ==
    IF ~IsKey(k) THEN Raise("ValueError")
    ELSE IF token[1] = "tok" THEN Ok(token[4])
    ELSE Raise("InvalidToken")

decrypt_bytes(token, k) ==
    IF ~IsKey(k) THEN Raise("ValueError")
    ELSE IF token[1] = "tok" /\ token[2] = k[2] THEN Ok(token[4])
    ELSE Raise("InvalidToken")

Encode(s) == s[2]

IsUtf8(b) == b[1] \in {"key", "tok"} \/ (b[1] = "raw" /\ b[2] = 0)

Decode(b) == IF IsUtf8(b) THEN Ok(Str(b)) ELSE Raise("UnicodeDecodeError")

----------------------------------------------------------------------------
(* Exceptions: which handler of the enclosing try blocks, innermost first, *)
(* takes an exception, and how the invocation ends                         *)

Catches(h, exc) ==
    IF h = "Exception" THEN exc \notin {"KeyboardInterrupt", "SystemExit"}
    ELSE h = exc

Handler(stack, exc) ==
    LET hit == {i \in 1..Len(stack) : Catches(stack[i], exc)}
    IN  IF hit = {} THEN "unhandled"
        ELSE stack[CHOOSE i \in hit : \A j \in hit : i <= j]

Ending(stack, exc) ==
    LET h == Handler(stack, exc)
    IN  CASE h = "Exception" -> [status |-> 1, signalled |-> FALSE, msg |-> "FailedDecrypt"]
          [] h = "KeyboardInterrupt" -> [status |-> 130, signalled |-> FALSE, msg |-> "Cancelled"]
          [] OTHER -> IF exc = "KeyboardInterrupt"
                      THEN [status |-> 130, signalled |-> TRUE, msg |-> "Traceback"]
                      ELSE [status |-> 1, signalled |-> FALSE, msg |-> "Traceback"]

----------------------------------------------------------------------------
(* Results of the program's functions: how the call ended (returned, raised *)
(* exc, or sys.exit(status)), the filesystem it left, what it printed, the  *)
(* paths it wrote, whether it created the default key directory             *)

Return(f, v) ==
    [exc |-> "none", status |-> 0, fs |-> f, msgs |-> {}, written |-> {},
     mkdir |-> FALSE, val |-> v]

SysExit(n, f, m) ==
    [exc |-> "SystemExit", status |-> n, fs |-> f, msgs |-> m, written |-> {},
     mkdir |-> FALSE, val |-> <<>>]

Throw(e, f) ==
    [exc |-> e, status |-> 1, fs |-> f, msgs |-> {}, written |-> {},
     mkdir |-> FALSE, val |-> <<>>]

\* path.write_bytes(data)
write_bytes(f, path, data) ==
    IF IsDir(f, path) THEN Throw("IsADirectoryError", f)
    ELSE [Return(WriteBytes(f, path, data), path) EXCEPT !.written = {path}]

\* path.read_bytes()
read_bytes(f, path) ==
    IF ~Exists(f, path) THEN Throw("FileNotFoundError", f)
    ELSE IF IsDir(f, path) THEN Throw("IsADirectoryError", f)
    ELSE Return(f, f[path])

----------------------------------------------------------------------------
(* Key management (the same code in both programs) *)

save_key(k, path, f) ==
    LET w == write_bytes(f, path, k)
    IN  IF w.exc # "none" THEN w ELSE [w EXCEPT !.msgs = {"Saved"}]

load_key(path, f) == read_bytes(f, path)

\* resolve_key that falls back to the default path when the path the user
\* gave does not exist
resolve_key_fallback(user_path, f, fresh) ==
    IF user_path # NoArg /\ Exists(f, user_path)
    THEN load_key(user_path, f)
    ELSE LET s == IF ~Exists(f, DefaultKeyPath)
                  THEN [save_key(fresh, DefaultKeyPath, f)
                            EXCEPT !.msgs = @ \cup {"NoKeyFound"}]
                  ELSE Return(f, <<>>)
             l == load_key(DefaultKeyPath, s.fs)
         IN  [l EXCEPT !.msgs = s.msgs, !.written = s.written, !.mkdir = TRUE]

\* resolve_key that generates and saves a key on every default-path
\* resolution, without looking for an existing file
resolve_key_regenerate(user_path, f, fresh) ==
    IF user_path # NoArg
    THEN IF ~Exists(f, user_path)
         THEN SysExit(1, f, {"KeyNotFound"})
         ELSE load_key(user_path, f)
    ELSE LET s == [save_key(fresh, DefaultKeyPath, f)
                       EXCEPT !.msgs = @ \cup {"NoKeyFound"}]
             l == load_key(DefaultKeyPath, s.fs)
         IN  [l EXCEPT !.msgs = s.msgs, !.written = s.written, !.mkdir = TRUE]

resolve_key(user_path, f, fresh) ==
    IF user_path # NoArg
    THEN IF ~Exists(f, user_path)
         THEN SysExit(1, f, {"KeyNotFound"})
         ELSE load_key(user_path, f)
    ELSE LET s == IF ~Exists(f, DefaultKeyPath)
                  THEN [save_key(fresh, DefaultKeyPath, f)
                            EXCEPT !.msgs = @ \cup {"NoKeyFound"}]
                  ELSE Return(f, <<>>)
             l == load_key(DefaultKeyPath, s.fs)
         IN  [l EXCEPT !.msgs = s.msgs, !.written = s.written, !.mkdir = TRUE]

----------------------------------------------------------------------------
(* Operations of src/text-encrypter.py ("sub") *)

do_encrypt_text(text, typed, k, f, nonce) ==
    LET t == IF text = NoArg THEN typed ELSE text
    IN  IF t = NoArg THEN Throw("EOFError", f)
        ELSE LET e == encrypt_bytes(Encode(t), k, nonce)
             IN  IF e.exc # "none" THEN Throw(e.exc, f)
                 ELSE [Return(f, e.val) EXCEPT !.msgs = {"EncryptedToken"}]

do_decrypt_text(token_str, typed, k, f) ==
    LET t == IF token_str = NoArg THEN typed ELSE token_str
    IN  IF t = NoArg THEN Throw("EOFError", f)
        ELSE LET d == decrypt_bytes(Encode(t), k)
                 u == IF d.exc # "none" THEN d ELSE Decode(d.val)
             IN  IF u.exc = "none"
                 THEN [Return(f, u.val) EXCEPT !.msgs = {"DecryptedText"}]
                 ELSE IF Catches("Exception", u.exc)
                 THEN SysExit(1, f, {"FailedDecrypt"})
                 ELSE Throw(u.exc, f)

do_encrypt_file(src, dst, k, f, nonce) ==
    IF ~Exists(f, src) \/ ~IsFile(f, src)
    THEN SysExit(1, f, {"FileNotFound"})
    ELSE LET e == encrypt_bytes(f[src], k, nonce)
             out == IF dst # NoArg THEN dst ELSE EncryptedName(src)
         IN  IF e.exc # "none" THEN Throw(e.exc, f)
             ELSE LET w == write_bytes(f, out, e.val)
                  IN  IF w.exc # "none" THEN w
                      ELSE [w EXCEPT !.msgs = {"Encrypted"}]

do_decrypt_file(src, dst, k, f) ==
    IF ~Exists(f, src) \/ ~IsFile(f, src)
    THEN SysExit(1, f, {"FileNotFound"})
    ELSE LET d == decrypt_bytes(f[src], k)
             out == IF dst # NoArg THEN dst ELSE DecryptedName(src)
         IN  IF d.exc # "none"
             THEN IF Catches("Exception", d.exc)
                  THEN SysExit(1, f, {"FailedDecrypt"})
                  ELSE Throw(d.exc, f)
             ELSE LET w == write_bytes(f, out, d.val)
                  IN  IF w.exc # "none" THEN w
                      ELSE [w EXCEPT !.msgs = {"Decrypted"}]

----------------------------------------------------------------------------
(* Operations of src/text_encrypter.py ("flag") *)

encrypt_file(path, k, f, nonce) ==
    LET r == read_bytes(f, path)
    IN  IF r.exc # "none" THEN r
        ELSE LET e == encrypt_bytes(r.val, k, nonce)
             IN  IF e.exc # "none" THEN Throw(e.exc, f)
                 ELSE LET w == write_bytes(f, EncryptedName(path), e.val)
                      IN  IF w.exc # "none" THEN w
                          ELSE [w EXCEPT !.msgs = {"Encrypted"}]

decrypt_file(path, k, f) ==
    LET r == read_bytes(f, path)
    IN  IF r.exc # "none" THEN r
        ELSE LET d == decrypt_bytes(r.val, k)
             IN  IF d.exc # "none" THEN Throw(d.exc, f)
                 ELSE LET w == write_bytes(f, DecryptedName(path), d.val)
                      IN  IF w.exc # "none" THEN w
                          ELSE [w EXCEPT !.msgs = {"Decrypted"}]

\* main, lines 161-170: the --encrypt branch
flag_encrypt(a, k, f, nonce) ==
    IF a.text # NoArg
    THEN LET e == encrypt_bytes(Encode(a.text), k, nonce)
         IN  IF e.exc # "none" THEN Throw(e.exc, f)
             ELSE [Return(f, e.val) EXCEPT !.msgs = {"EncryptedToken"}]
    ELSE IF a.file # NoArg
    THEN IF ~Exists(f, a.file) THEN SysExit(1, f, {"FileNotFound"})
         ELSE encrypt_file(a.file, k, f, nonce)
    ELSE [Return(f, <<>>) EXCEPT !.msgs = {"Hint"}]

\* main, lines 173-192: the --decrypt branch
flag_decrypt(a, k, f) ==
    IF a.text # NoArg
    THEN LET d == decrypt_bytes(Encode(a.text), k)
             u == IF d.exc # "none" THEN d ELSE Decode(d.val)
         IN  IF u.exc = "none"
             THEN [Return(f, u.val) EXCEPT !.msgs = {"DecryptedText"}]
             ELSE IF Catches("Exception", u.exc)
             THEN SysExit(1, f, {"FailedDecrypt"})
             ELSE Throw(u.exc, f)
    ELSE IF a.file # NoArg
    THEN IF ~Exists(f, a.file) THEN SysExit(1, f, {"FileNotFound"})
         ELSE LET r == decrypt_file(a.file, k, f)
              IN  IF r.exc = "none" THEN r
                  ELSE IF Catches("Exception", r.exc)
                  THEN SysExit(1, f, {"FailedDecrypt"})
                  ELSE r
    ELSE [Return(f, <<>>) EXCEPT !.msgs = {"Hint"}]

----------------------------------------------------------------------------
(* Command lines *)

Arg(prog, flags, cmd, k, file, out, text) ==
    [prog |-> prog, help |-> "h" \in flags, version |-> "v" \in flags,
     generate |-> "g" \in flags, encrypt |-> "e" \in flags,
     decrypt |-> "d" \in flags, cmd |-> cmd, key |-> k, file |-> file,
     out |-> out, text |-> text]

NoArgs == Arg("flag", {}, "none", NoArg, NoArg, NoArg, NoArg)

\* len(sys.argv) == 1
Bare(a) == a = [NoArgs EXCEPT !.prog = a.prog]

\* src/text-encrypter.py: [-v] [-k KEY] {genkey,enc-text,dec-text,enc-file,dec-file}
SubArgs(keys, files, outs, texts) ==
    {Arg("sub", {"v"}, "none", NoArg, NoArg, NoArg, NoArg)}
    \cup {Arg("sub", {}, "none", k, NoArg, NoArg, NoArg) : k \in keys}
    \cup {Arg("sub", {}, "genkey", NoArg, NoArg, o, NoArg) : o \in outs \cup {NoArg}}
    \cup {Arg("sub", {}, c, k, NoArg, NoArg, t) :
            c \in {"enc-text", "dec-text"}, k \in keys, t \in texts \cup {NoArg}}
    \cup {Arg("sub", {}, c, k, f, o, NoArg) :
            c \in {"enc-file", "dec-file"}, k \in keys, f \in files,
            o \in outs \cup {NoArg}}

\* src/text_encrypter.py: [-h] [-v] [-g] [-e] [-d] [-f FILE] [-t TEXT] [-k KEY]
FlagArgs(keys, files, texts) ==
    {Arg("flag", fl, "none", NoArg, NoArg, NoArg, NoArg) :
            fl \in {{}, {"h"}, {"v"}, {"g"}}}
    \cup {Arg("flag", fl, "none", k, NoArg, NoArg, t) :
            fl \in {{}, {"e"}, {"d"}}, k \in keys, t \in texts \cup {NoArg}}
    \cup {Arg("flag", fl, "none", k, f, NoArg, NoArg) :
            fl \in {{"e"}, {"d"}}, k \in keys, f \in files}

\* The operation main routes to once the key is resolved
Route(a) ==
    IF a.prog = "sub"
    THEN IF a.cmd \in {"enc-text", "dec-text", "enc-file", "dec-file"}
         THEN a.cmd ELSE "help"
    ELSE IF a.encrypt
         THEN IF a.text # NoArg THEN "enc-text"
              ELSE IF a.file # NoArg THEN "enc-file" ELSE "hint"
         ELSE IF a.decrypt
         THEN IF a.text # NoArg THEN "dec-text"
              ELSE IF a.file # NoArg THEN "dec-file" ELSE "hint"
         ELSE "help"

\* The try blocks around the statement the invocation is at, innermost
\* first: text-encrypter.py wraps main() (lines 216-220), text_encrypter.py
\* only the dispatch after resolve_key (lines 160-197)
OuterStack(a, at) ==
    IF a.prog = "sub" THEN <<"KeyboardInterrupt">>
    ELSE IF at = "operation" THEN <<"KeyboardInterrupt">> ELSE <<>>

InDecryptTry(a, at) == at = "operation" /\ Route(a) \in {"dec-text", "dec-file"}

----------------------------------------------------------------------------
(* Inputs of the model *)

UserKeyPath == <<"k">>
MissingPath == <<"m">>
DirPath == <<"d">>
SrcPath == <<"e">>
OutPath == <<"o">>

Keys == {KeyBytes(k) : k \in KeyIds}
Payloads == {Raw(0), Raw(1)}
Texts == {Str(Raw(0)), Str(Token(1, 0, Raw(0))), Str(Token(2, 0, Raw(1)))}

KeyArgs == {NoArg, UserKeyPath, MissingPath, SrcPath}
FileArgs == {SrcPath, EncryptedName(SrcPath), MissingPath, DirPath}
OutArgs == {SrcPath, OutPath}

\* Command lines that name an operation next to one main returns on first
MixedArgs ==
    {Arg("sub", {"v"}, "enc-text", MissingPath, NoArg, NoArg, Str(Raw(0))),
     Arg("flag", {"g", "e"}, "none", MissingPath, NoArg, NoArg, Str(Raw(0))),
     Arg("flag", {"h", "d"}, "none", NoArg, SrcPath, NoArg, NoArg)}

Args == SubArgs(KeyArgs, FileArgs, OutArgs, Texts)
        \cup FlagArgs(KeyArgs, FileArgs, Texts)
        \cup MixedArgs

Chars == {".", "e", "n", "c"}
RECURSIVE NamesOfLen(_)
NamesOfLen(n) ==
    IF n = 0 THEN {<<>>}
    ELSE {Append(s, c) : s \in NamesOfLen(n - 1), c \in Chars}
Names == UNION {NamesOfLen(n) : n \in 1..MaxNameLen}

\* Names that end in ".enc" after nothing but dots
DotNames == {<<".">> \o EncSuffix, <<".", ".">> \o EncSuffix,
             <<".", ".", ".">> \o EncSuffix}

----------------------------------------------------------------------------
(* The state machine *)

TypeOK ==
    /\ pc \in {"idle", "main", "resolve_key", "operation", "done"}
    /\ keydir \in BOOLEAN /\ signalled \in BOOLEAN /\ interrupted \in BOOLEAN
    /\ status \in {0, 1, 130}
    /\ runs \in 0..MaxRuns
    /\ written \subseteq DOMAIN fs

Fresh(f, kd) ==
    /\ pc = "idle"
    /\ args = NoArgs
    /\ fs = f
    /\ keydir = kd
    /\ key = NoArg
    /\ status = 0
    /\ signalled = FALSE
    /\ console = {}
    /\ written = {}
    /\ pre = [fs |-> f, keydir |-> kd]
    /\ prev = NoArg
    /\ interrupted = FALSE
    /\ autokey = NoArg
    /\ runs = 0

\* A working directory with a source file, a user key file and a
\* sub-directory; the default key exists or not
Init ==
    \E data \in Payloads \cup {Token(1, 0, Raw(0))}, haskey \in BOOLEAN :
        LET cwd == (SrcPath :> data) @@ (UserKeyPath :> KeyBytes(2))
                   @@ (DirPath :> Dir)
        IN  Fresh(IF haskey THEN cwd @@ (DefaultKeyPath :> KeyBytes(1)) ELSE cwd,
                  haskey)

\* The summary of the invocation that just ended, kept for the next one
Summary ==
    IF pc = "done" /\ ~interrupted /\ status = 0 /\ Route(args) = "enc-file"
       /\ args.out = NoArg /\ ~args.version /\ written # {}
    THEN <<args.file, EncryptedName(args.file), pre.fs[args.file], key>>
    ELSE NoArg

\* The shell starts the program with command line a
Invoke(a) ==
    /\ pc = "idle"
    /\ runs < MaxRuns
    /\ pc' = "main"
    /\ args' = a
    /\ written' = {}
    /\ pre' = [fs |-> fs, keydir |-> keydir]
    /\ runs' = runs + 1
    /\ UNCHANGED <<fs, keydir, key, status, signalled, console, prev,
                   interrupted, autokey>>

\* The process is gone and the shell prompts again: nothing of the
\* invocation is left but the filesystem
Exit ==
    /\ pc = "done"
    /\ pc' = "idle"
    /\ args' = NoArgs
    /\ key' = NoArg
    /\ status' = 0
    /\ signalled' = FALSE
    /\ console' = {}
    /\ pre' = [fs |-> fs, keydir |-> keydir]
    /\ prev' = Summary
    /\ interrupted' = FALSE
    /\ UNCHANGED <<fs, keydir, written, autokey, runs>>

\* The call r returned and the invocation goes on at `next`, or main
\* returned ("return"), or the call ended the invocation
Proceed(r, stack, next) ==
    /\ fs' = r.fs
    /\ autokey' = IF DefaultKeyPath \notin r.written THEN autokey
                  ELSE IF pc # "resolve_key" THEN NoArg
                  ELSE IF Exists(fs, DefaultKeyPath) THEN autokey
                  ELSE r.fs[DefaultKeyPath]
    /\ keydir' = (keydir \/ r.mkdir)
    /\ written' = written \cup r.written
    /\ IF r.exc \in {"none", "return"}
       THEN /\ pc' = IF r.exc = "none" THEN next ELSE "done"
            /\ status' = 0
            /\ signalled' = FALSE
            /\ console' = console \cup r.msgs
       ELSE IF r.exc = "SystemExit" /\ Handler(stack, r.exc) = "unhandled"
       THEN /\ pc' = "done"
            /\ status' = r.status
            /\ signalled' = FALSE
            /\ console' = console \cup r.msgs
       ELSE LET e == Ending(stack, r.exc)
            IN  /\ pc' = "done"
                /\ status' = e.status
                /\ signalled' = e.signalled
                /\ console' = console \cup r.msgs \cup {e.msg}

\* main up to the call of resolve_key:
\* text-encrypter.py lines 187-198, text_encrypter.py lines 144-156
main_entry(a, f, fresh) ==
    IF a.prog = "sub"
    THEN IF a.version
         THEN [SysExit(0, f, {"Banner", "Version"}) EXCEPT !.exc = "return"]
         ELSE IF a.cmd = "genkey"
         THEN LET s == save_key(fresh, IF a.out # NoArg THEN a.out ELSE DefaultKeyPath, f)
              IN  [s EXCEPT !.mkdir = (a.out = NoArg),
                            !.msgs = @ \cup {"Banner"},
                            !.exc = IF @ = "none" THEN "return" ELSE @]
         ELSE [Return(f, <<>>) EXCEPT !.msgs = {"Banner"}]
    ELSE IF a.help \/ Bare(a)
         THEN [SysExit(0, f, {"Help"}) EXCEPT !.exc = "return"]
         ELSE IF a.version
         THEN [SysExit(0, f, {"Version"}) EXCEPT !.exc = "return"]
         ELSE IF a.generate
         THEN LET s == save_key(fresh, DefaultKeyPath, f)
              IN  [s EXCEPT !.mkdir = TRUE,
                            !.exc = IF @ = "none" THEN "return" ELSE @]
         ELSE Return(f, <<>>)

MainEntry ==
    /\ pc = "main"
    /\ \E fresh \in Keys :
          Proceed(main_entry(args, fs, fresh), OuterStack(args, "main"), "resolve_key")
    /\ UNCHANGED <<args, key, pre, prev, interrupted, runs>>

\* key = resolve_key(args.key)
ResolveKey ==
    /\ pc = "resolve_key"
    /\ \E fresh \in Keys :
          LET r == resolve_key(args.key, fs, fresh)
          IN  /\ Proceed(r, OuterStack(args, "resolve_key"), "operation")
              /\ key' = r.val
    /\ UNCHANGED <<args, pre, prev, interrupted, runs>>

Typed == IF args.prog = "sub" /\ args.text = NoArg THEN Texts \cup {NoArg} ELSE {NoArg}

DoEncryptText ==
    /\ pc = "operation"
    /\ Route(args) = "enc-text"
    /\ \E nonce \in Nonces, typed \in Typed :
          Proceed(IF args.prog = "sub"
                  THEN do_encrypt_text(args.text, typed, key, fs, nonce)
                  ELSE flag_encrypt(args, key, fs, nonce),
                  OuterStack(args, "operation"), "done")
    /\ UNCHANGED <<args, key, pre, prev, interrupted, runs>>

DoDecryptText ==
    /\ pc = "operation"
    /\ Route(args) = "dec-text"
    /\ \E typed \in Typed :
          Proceed(IF args.prog = "sub"
                  THEN do_decrypt_text(args.text, typed, key, fs)
                  ELSE flag_decrypt(args, key, fs),
                  OuterStack(args, "operation"), "done")
    /\ UNCHANGED <<args, key, pre, prev, interrupted, runs>>

DoEncryptFile ==
    /\ pc = "operation"
    /\ Route(args) = "enc-file"
    /\ \E nonce \in Nonces :
          Proceed(IF args.prog = "sub"
                  THEN do_encrypt_file(args.file, args.out, key, fs, nonce)
                  ELSE flag_encrypt(args, key, fs, nonce),
                  OuterStack(args, "operation"), "done")
    /\ UNCHANGED <<args, key, pre, prev, interrupted, runs>>

DoDecryptFile ==
    /\ pc = "operation"
    /\ Route(args) = "dec-file"
    /\ Proceed(IF args.prog = "sub"
               THEN do_decrypt_file(args.file, args.out, key, fs)
               ELSE flag_decrypt(args, key, fs),
               OuterStack(args, "operation"), "done")
    /\ UNCHANGED <<args, key, pre, prev, interrupted, runs>>

\* No operation is left to run: parser.print_help() (text-encrypter.py line
\* 212), print_help() or the "Provide --text or --file" hint
\* (text_encrypter.py lines 172, 192, 194)
NoOperation ==
    /\ pc = "operation"
    /\ Route(args) \in {"help", "hint"}
    /\ Proceed(IF Route(args) = "help"
               THEN [Return(fs, <<>>) EXCEPT !.msgs = {"Help"}]
               ELSE IF args.encrypt THEN flag_encrypt(args, key, fs, 0)
               ELSE flag_decrypt(args, key, fs),
               OuterStack(args, "operation"), "done")
    /\ UNCHANGED <<args, key, pre, prev, interrupted, runs>>

\* Ctrl-C: KeyboardInterrupt is raised at the statement the invocation is at
Interrupt ==
    /\ pc \in {"main", "resolve_key", "operation"}
    /\ \E inner \in (IF InDecryptTry(args, pc) THEN BOOLEAN ELSE {FALSE}) :
          LET stack == (IF inner THEN <<"Exception">> ELSE <<>>) \o OuterStack(args, pc)
              e == Ending(stack, "KeyboardInterrupt")
          IN  /\ pc' = "done"
              /\ status' = e.status
              /\ signalled' = e.signalled
              /\ console' = console \cup {e.msg}
    /\ interrupted' = TRUE
    /\ UNCHANGED <<args, fs, keydir, key, written, pre, prev, autokey, runs>>

Next ==
    \/ \E a \in Args : Invoke(a)
    \/ MainEntry
    \/ ResolveKey
    \/ DoEncryptText
    \/ DoDecryptText
    \/ DoEncryptFile
    \/ DoDecryptFile
    \/ NoOperation
    \/ Exit

\* Invocations that no interrupt reaches
Spec == Init /\ [][Next]_vars

\* Invocations with interrupts
NextInterrupt ==
    \/ Next
    \/ Interrupt

SpecInterrupt == Init /\ [][NextInterrupt]_vars

----------------------------------------------------------------------------
(* File mode on every file name: the working directory holds one file of   *)
(* any name of up to MaxNameLen characters (or one of DotNames); each invocation encrypts or    *)
(* decrypts, with no output override and the default key, the file the     *)
(* invocation before it wrote (or any file when it wrote none)             *)

InitFiles ==
    \E name \in (Names \cup DotNames) \ {<<".">>, <<".", ".">>},
       data \in {Raw(0), Token(1, 0, Raw(0))}, k \in Keys :
        Fresh((name :> data) @@ (DefaultKeyPath :> k), TRUE)

TargetFiles ==
    IF written # {} THEN written ELSE DOMAIN fs \ {DefaultKeyPath}

FileModeArgs ==
    {Arg("sub", {}, c, NoArg, f, NoArg, NoArg) :
        c \in {"enc-file", "dec-file"}, f \in TargetFiles}
    \cup {Arg("flag", fl, "none", NoArg, f, NoArg, NoArg) :
        fl \in {{"e"}, {"d"}}, f \in TargetFiles}

NextFiles ==
    \/ \E a \in FileModeArgs : Invoke(a)
    \/ MainEntry
    \/ ResolveKey
    \/ DoEncryptFile
    \/ DoDecryptFile
    \/ Exit

SpecFiles == InitFiles /\ [][NextFiles]_vars

----------------------------------------------------------------------------
(* Vocabulary of the properties *)

\* The invocation ran to its end without an interrupt
Finished == pc = "done" /\ ~interrupted

\* The invocation got past main's early returns, to the call of resolve_key
NeedsKey(a) ==
    IF a.prog = "sub" THEN ~a.version /\ a.cmd # "genkey"
    ELSE ~(a.help \/ Bare(a)) /\ ~a.version /\ ~a.generate

CryptoRoutes == {"enc-text", "dec-text", "enc-file", "dec-file"}

EndsWith(name, suffix) ==
    /\ Len(name) >= Len(suffix)
    /\ SubSeq(name, Len(name) - Len(suffix) + 1, Len(name)) = suffix

Strip(name, suffix) == SubSeq(name, 1, Len(name) - Len(suffix))

\* g is f but for the paths in ps
SameBut(f, g, ps) ==
    /\ DOMAIN g \ ps = DOMAIN f \ ps
    /\ \A p \in DOMAIN f \ ps : g[p] = f[p]

----------------------------------------------------------------------------
(* C1: an encrypt or decrypt invocation given an explicit key path that    *)
(* does not exist ends in "Key not found" with exit status 1 and leaves    *)
(* the filesystem as it was: no key generated, no default key directory    *)
(* or key file created, no output written.                                 *)

C1_ExplicitKeyMiss ==
    (/\ Finished
     /\ NeedsKey(args)
     /\ Route(args) \in CryptoRoutes \cup {"hint"}
     /\ args.key # NoArg
     /\ ~Exists(pre.fs, args.key))
    => /\ status = 1
       /\ "KeyNotFound" \in console
       /\ "Saved" \notin console
       /\ fs = pre.fs
       /\ keydir = pre.keydir
       /\ written = {}

C1_Witness ==
    /\ Finished
    /\ Route(args) = "enc-file"
    /\ args.key = MissingPath
    /\ IsFile(pre.fs, args.file)
    /\ ~Exists(pre.fs, args.key)
    /\ ~Exists(pre.fs, DefaultKeyPath)
    /\ ~pre.keydir
    /\ "KeyNotFound" \in console
    /\ status = 1

----------------------------------------------------------------------------
(* C2: a file-encrypt or file-decrypt invocation whose source path is      *)
(* missing or no regular file ends in "File not found" with exit status 1  *)
(* and writes nothing, the default key file included, whatever the key     *)
(* argument and whether or not a default key exists.                       *)

(* Stated for the invocations whose key argument is absent or names an     *)
(* existing key file, so that no other failure comes first, and asking     *)
(* for the message only when the source path does not exist at all.        *)

C2_MissingSourceWritesNothing ==
    (/\ Finished
     /\ NeedsKey(args)
     /\ Route(args) \in {"enc-file", "dec-file"}
     /\ args.key = NoArg \/ IsFile(pre.fs, args.key)
     /\ ~IsFile(pre.fs, args.file))
    => /\ status = 1
       /\ ~Exists(pre.fs, args.file) => "FileNotFound" \in console
       /\ fs = pre.fs
       /\ written = {}

----------------------------------------------------------------------------
(* C3: resolving the key with no explicit path and no file at the default  *)
(* path creates exactly one new file, the key, at the default path; as     *)
(* long as nothing else writes that file, every later resolution writes    *)
(* nothing and returns the bytes first written.                            *)

C3_AutoProvisioning ==
    /\ (pc = "operation" /\ args.key = NoArg /\ ~Exists(pre.fs, DefaultKeyPath))
       => /\ autokey # NoArg
          /\ written = {DefaultKeyPath}
          /\ fs = WriteBytes(pre.fs, DefaultKeyPath, autokey)
    /\ autokey # NoArg
       => /\ IsKey(autokey)
          /\ Exists(fs, DefaultKeyPath)
          /\ fs[DefaultKeyPath] = autokey
          /\ (pc = "operation" /\ args.key = NoArg) => key = autokey
          /\ (pc = "operation" /\ args.key = NoArg /\ Exists(pre.fs, DefaultKeyPath))
             => (written = {} /\ fs = pre.fs /\ "Saved" \notin console)

C3_Witness ==
    /\ pc = "operation"
    /\ args.key = NoArg
    /\ runs >= 2
    /\ autokey # NoArg
    /\ Exists(pre.fs, DefaultKeyPath)
    /\ key = autokey
    /\ written = {}

----------------------------------------------------------------------------
(* C4: file-encrypt of a file p holding P, with no output override, and    *)
(* then file-decrypt of the file it wrote, with no output override and the *)
(* same key, writes to p itself and leaves exactly P there, whatever the   *)
(* name of p.                                                              *)

C4_FileRoundTrip ==
    (/\ Finished
     /\ prev # NoArg
     /\ Route(args) = "dec-file"
     /\ args.out = NoArg
     /\ args.file = prev[2]
     /\ key = prev[4])
    => /\ status = 0
       /\ written = {prev[1]}
       /\ fs[prev[1]] = prev[3]

C4_Witness ==
    /\ Finished
    /\ prev # NoArg
    /\ Route(args) = "dec-file"
    /\ prev[1] = EncSuffix
    /\ args.file = prev[2]
    /\ key = prev[4]
    /\ status = 0
    /\ fs[EncSuffix] = prev[3]

----------------------------------------------------------------------------
(* C5: decrypting, in text or file mode, a token sealed under a key other  *)
(* than the resolved key ends in "Failed to decrypt" with exit status 1;   *)
(* in file mode nothing is written: no output file appears or changes and  *)
(* the source keeps its bytes.                                             *)

SealedUnderOtherKey(t) ==
    key # NoArg /\ IsKey(key) /\ t[1] = "tok" /\ t[2] # key[2]

C5_WrongKeyRejected ==
    /\ (/\ Finished
        /\ NeedsKey(args)
        /\ Route(args) = "dec-text"
        /\ args.text # NoArg
        /\ SealedUnderOtherKey(Encode(args.text)))
       => (status = 1 /\ "FailedDecrypt" \in console)
    /\ (/\ Finished
        /\ NeedsKey(args)
        /\ Route(args) = "dec-file"
        /\ IsFile(pre.fs, args.file)
        /\ SealedUnderOtherKey(pre.fs[args.file]))
       => /\ status = 1
          /\ "FailedDecrypt" \in console
          /\ written \subseteq {DefaultKeyPath}
          /\ SameBut(pre.fs, fs, {DefaultKeyPath})

C5_Witness ==
    /\ Finished
    /\ Route(args) = "dec-file"
    /\ args.out = OutPath
    /\ IsFile(pre.fs, args.file)
    /\ SealedUnderOtherKey(pre.fs[args.file])
    /\ status = 1
    /\ ~Exists(fs, OutPath)

----------------------------------------------------------------------------
(* C6: an invocation ends with exit status 0 only when the operation it    *)
(* was routed to succeeded and printed its result; every failure (missing  *)
(* or corrupt key, missing source, failed decryption, undecodable text)    *)
(* is reported by a message of the program and ends with exit status 1;    *)
(* no failure is left unhandled and no incomplete request ends with 0.     *)

ResultMessage(a) ==
    IF ~NeedsKey(a)
    THEN IF a.version THEN "Version"
         ELSE IF a.prog = "flag" /\ (a.help \/ Bare(a)) THEN "Help" ELSE "Saved"
    ELSE CASE Route(a) = "enc-text" -> "EncryptedToken"
           [] Route(a) = "dec-text" -> "DecryptedText"
           [] Route(a) = "enc-file" -> "Encrypted"
           [] Route(a) = "dec-file" -> "Decrypted"
           [] Route(a) = "help" -> "Help"
           [] OTHER -> "NoResult"

FailureMessages == {"KeyNotFound", "FileNotFound", "FailedDecrypt"}

C6_ExitStatusContract ==
    Finished
    => /\ status \in {0, 1}
       /\ "Traceback" \notin console
       /\ status = 0 => ResultMessage(args) \in console
       /\ status = 1 => console \cap FailureMessages # {}

----------------------------------------------------------------------------
(* C7: file-encrypt never deletes or modifies its source, whatever the     *)
(* key and the output override (an override naming the source included):   *)
(* afterwards the source holds the bytes it held, and no file but the      *)
(* output file (and a default key provisioned on the way) is created or    *)
(* changed.                                                                *)

C7_EncryptKeepsSource ==
    (/\ Finished
     /\ NeedsKey(args)
     /\ Route(args) = "enc-file"
     /\ IsFile(pre.fs, args.file))
    => /\ Exists(fs, args.file)
       /\ fs[args.file] = pre.fs[args.file]
       /\ written \subseteq {IF args.out # NoArg THEN args.out
                             ELSE args.file \o EncSuffix, DefaultKeyPath}
       /\ SameBut(pre.fs, fs, written)

----------------------------------------------------------------------------
(* C8 (as stated): with no output override, file-encrypt writes to the     *)
(* source name with ".enc" appended; file-decrypt writes to the source     *)
(* name with one trailing ".enc" stripped whenever the source name ends    *)
(* with ".enc", and otherwise to the source name with ".dec" appended.     *)

C8_AsStated ==
    /\ (Finished /\ Route(args) = "enc-file" /\ args.out = NoArg
        /\ "Encrypted" \in console)
       => written = {args.file \o EncSuffix}
    /\ (Finished /\ Route(args) = "dec-file" /\ args.out = NoArg
        /\ "Decrypted" \in console)
       => written = {IF EndsWith(args.file, EncSuffix)
                     THEN Strip(args.file, EncSuffix)
                     ELSE args.file \o DecSuffix}

(* C8 (amended): with no output override, file-encrypt writes to the       *)
(* source name with ".enc" appended; file-decrypt writes to the source     *)
(* name with one trailing ".enc" stripped whenever the source name ends    *)
(* with ".enc" and is longer than ".enc", and otherwise (the name ".enc"   *)
(* itself included) to the source name with ".dec" appended; when what     *)
(* is left after stripping is "." or "..", nothing is written and the      *)
(* invocation ends with exit status 1.                                     *)

HasEncSuffix(name) == EndsWith(name, EncSuffix) /\ Len(name) > Len(EncSuffix)

C8_OutputNames ==
    /\ (Finished /\ Route(args) = "enc-file" /\ args.out = NoArg
        /\ IsFile(pre.fs, args.file) /\ IsKey(key))
       => /\ status = 0
          /\ written = {args.file \o EncSuffix}
    /\ (Finished /\ Route(args) = "dec-file" /\ args.out = NoArg
        /\ IsFile(pre.fs, args.file)
        /\ decrypt_bytes(pre.fs[args.file], key).exc = "none")
       => IF ~HasEncSuffix(args.file)
          THEN status = 0 /\ written = {args.file \o DecSuffix}
          ELSE IF IsDirName(Strip(args.file, EncSuffix))
          THEN status = 1 /\ written = {} /\ fs = pre.fs
          ELSE status = 0 /\ written = {Strip(args.file, EncSuffix)}

C8_Witness ==
    /\ Finished
    /\ Route(args) = "dec-file"
    /\ args.file = EncSuffix
    /\ status = 0
    /\ written = {EncSuffix \o DecSuffix}

----------------------------------------------------------------------------
(* C9: an interrupt arriving at any point of an invocation ends it with    *)
(* exit status 130 after the cancellation message is printed, never with   *)
(* status 0 or 1, and is not taken by the decrypt-failure handler.         *)

C9_InterruptCancels ==
    (pc = "done" /\ interrupted)
    => /\ status = 130
       /\ "Cancelled" \in console
       /\ "Traceback" \notin console
       /\ "FailedDecrypt" \notin console

----------------------------------------------------------------------------
(* C10: an invocation that shows the version or ends by showing help (an   *)
(* invocation with no operation selected included) creates no key file     *)
(* and changes no existing key file.                                       *)

C10_HelpAndVersionWriteNoKey ==
    (Finished /\ ("Version" \in console \/ "Help" \in console))
    => /\ written = {}
       /\ fs = pre.fs

====
